---------------------------- MODULE Spec2Model ----------------------------
(***************************************************************************)
(* json-logger-server: a model of the two services of the repository.      *)
(*                                                                         *)
(*   src/app.py   the dashboard callback fetch_fitbit_data: six sequential *)
(*                GET requests, each response reshaped into a figure.      *)
(*   src/main.py  the logging endpoint POST /log.                          *)
(*                                                                         *)
(* Python values are modelled structurally: a dict is a function on its    *)
(* keys, a list is a sequence, a plotly figure is a record of its traces   *)
(* (data) and of the layout keys that were set.  An f-string is the tuple  *)
(* of its literal part and of the interpolated value.                      *)
(***************************************************************************)
EXTENDS Integers, Sequences, FiniteSets, TLC

VARIABLES
    \* ---- dashboard process (src/app.py) ----
    hashSeed,        \* the process's string-hash seed (PYTHONHASHSEED, random per process)
    token,           \* State('fitbit-token', 'value') of the last call
    selected_date,   \* State('date-picker', 'date') of the last call
    requests,        \* the requests.get calls the last call issued, in order
    responses,       \* what each of them returned (or that it raised)
    fig_hr, fig_steps, fig_sleep, fig_activity, fig_weight, fig_spo2,
    sleep_stages,    \* the local dict of per-stage minutes
    sleep_series,    \* the local list of (dateTime, level) pairs
    e,               \* the exception caught at the except clause, if any
    stdout,          \* what the call printed
    result,          \* the value the last call returned
    prev_result,     \* the value the call before it returned
    \* ---- logging process (src/main.py) ----
    clock,           \* the server's wall clock
    calls,           \* the POST /log requests received, in order of arrival
    logfile          \* the lines of requests.log

dashVars == <<hashSeed, token, selected_date, requests, responses,
              fig_hr, fig_steps, fig_sleep, fig_activity, fig_weight, fig_spo2,
              sleep_stages, sleep_series, e, stdout, result, prev_result>>
logVars == <<clock, calls, logfile>>
vars == <<dashVars, logVars>>

(***************************************************************************)
(* Bounds of the model.                                                    *)
(***************************************************************************)
MaxRecords == 2       \* sleep records in one sleep response
MaxLogCalls == 2      \* POST /log requests in one run of the model
MaxClock == 2         \* ticks of the logging server's clock

(***************************************************************************)
(* Python values.                                                          *)
(***************************************************************************)
None == "<None>"                  \* Python's None, where a string is expected
Unbound == [unbound |-> TRUE]     \* a local variable that was never assigned
NoExc == "<no exception>"
NoResult == <<>>                  \* before the callback has returned
EmptyDict == [k \in {} |-> 0]     \* {}

\* Python truthiness of an optional string
Truthy(v) == v # None /\ v # ""

\* d.get(k, default)
Get(d, k, default) == IF k \in DOMAIN d THEN d[k] ELSE default

\* go.Figure()
Figure == [data |-> <<>>, layout |-> EmptyDict]

\* fig.add_trace(trace)
add_trace(fig, trace) == [fig EXCEPT !.data = Append(@, trace)]

\* fig.update_layout(**kw): the keys given are set, the others kept
update_layout(fig, kw) == [fig EXCEPT !.layout = kw @@ @]

\* [dp[k] for dp in series]
Column(series, k) == [i \in 1..Len(series) |-> series[i][k]]

\* whether dp[k] raises KeyError for some dp of the series
MissesKey(series, k) == \E i \in 1..Len(series) : k \notin DOMAIN series[i]

BoundedSeq(S, n) == UNION {[1..k -> S] : k \in 0..n}


(***************************************************************************)
(* The call frame of fetch_fitbit_data: its arguments, its locals, and the *)
(* requests it has issued with what they returned.                         *)
(***************************************************************************)
Frame(tok, date, seed) ==
    [token |-> tok, selected_date |-> date, seed |-> seed,
     requests |-> <<>>, responses |-> <<>>,
     fig_hr |-> Unbound, fig_steps |-> Unbound, fig_sleep |-> Unbound,
     fig_activity |-> Unbound, fig_weight |-> Unbound, fig_spo2 |-> Unbound,
     sleep_stages |-> Unbound, sleep_series |-> Unbound,
     e |-> NoExc]

\* the urls dict; a URL is the tuple of the pieces of its f-string
urls(date) ==
    [heart    |-> <<"https://api.fitbit.com/1/user/-", "/activities/heart/date/", date, "/1d/1min.json">>,
     steps    |-> <<"https://api.fitbit.com/1/user/-", "/activities/steps/date/", date, "/1d/1min.json">>,
     weight   |-> <<"https://api.fitbit.com/1/user/-", "/body/log/weight/date/", date, ".json">>,
     activity |-> <<"https://api.fitbit.com/1/user/-", "/activities/date/", date, ".json">>,
     spo2     |-> <<"https://api.fitbit.com/1/user/-", "/spo2/date/", date, ".json">>,
     sleep    |-> <<"https://api.fitbit.com/1.2/user/-/sleep/date/", date, ".json">>]

headers(tok) == [Authorization |-> <<"Bearer ", tok>>]

\* requests.get(urls[metric], headers=headers), answered by r
requests_get(f, metric, r) ==
    [f EXCEPT !.requests = Append(@, [metric |-> metric,
                                      url |-> urls(f.selected_date)[metric],
                                      headers |-> headers(f.token)]),
              !.responses = Append(@, r)]

\* an exception propagates to the except clause
Raise(f, exc) == [f EXCEPT !.e = exc]

\* response.status_code != 200
StatusFailed(r) == r.status_code # 200

\* a go.Scatter line trace
Line(series, name) ==
    [type |-> "scatter", x |-> Column(series, "time"), y |-> Column(series, "value"),
     mode |-> "lines", name |-> name]

(***************************************************************************)
(* Heart rate.  fig_hr is created only in the branch of a non-empty        *)
(* series; the else branch uses it without having assigned it.             *)
(***************************************************************************)
FetchHeart(f, r) ==
    LET g == requests_get(f, "heart", r) IN
    IF r.raised THEN Raise(g, "ConnectionError")
    ELSE IF StatusFailed(r) THEN Raise(g, "Heart rate request failed")
    ELSE IF ~r.json_ok THEN Raise(g, "JSONDecodeError")
    ELSE LET hr_data == r.body IN
    IF "activities-heart-intraday" \notin DOMAIN hr_data
    THEN Raise(g, "KeyError: 'activities-heart-intraday'")
    ELSE IF "dataset" \notin DOMAIN hr_data["activities-heart-intraday"]
    THEN Raise(g, "KeyError: 'dataset'")
    ELSE LET hr_series == hr_data["activities-heart-intraday"]["dataset"] IN
    IF hr_series # <<>>
    THEN IF MissesKey(hr_series, "time") THEN Raise(g, "KeyError: 'time'")
         ELSE IF MissesKey(hr_series, "value") THEN Raise(g, "KeyError: 'value'")
         ELSE [g EXCEPT !.fig_hr =
                 update_layout(add_trace(Figure, Line(hr_series, "Heart Rate")),
                     [title |-> <<"Heart Rate on ", f.selected_date>>,
                      xaxis_title |-> "Time", yaxis_title |-> "BPM"])]
    ELSE IF g.fig_hr = Unbound
         THEN Raise(g, "UnboundLocalError: fig_hr")
         ELSE [g EXCEPT !.fig_hr =
                 update_layout(@, [title |-> <<"No Heart Rate Data Available">>])]

(***************************************************************************)
(* Steps, weight and SpO2 share one shape: the series is the dataset under *)
(* the metric's key, or [] when the key is absent; the figure is created   *)
(* before the branch.  m names what differs between the three.             *)
(***************************************************************************)
FetchSeries(f, r, m) ==
    LET g == requests_get(f, m.metric, r) IN
    IF r.raised THEN Raise(g, "ConnectionError")
    ELSE IF StatusFailed(r) THEN Raise(g, m.failed)
    ELSE IF ~r.json_ok THEN Raise(g, "JSONDecodeError")
    ELSE LET data == r.body IN
    IF m.key \in DOMAIN data /\ "dataset" \notin DOMAIN data[m.key]
    THEN Raise(g, "KeyError: 'dataset'")
    ELSE LET series == IF m.key \in DOMAIN data THEN data[m.key]["dataset"] ELSE <<>> IN
    IF series # <<>>
    THEN IF MissesKey(series, "time") THEN Raise(g, "KeyError: 'time'")
         ELSE IF MissesKey(series, "value") THEN Raise(g, "KeyError: 'value'")
         ELSE [g EXCEPT ![m.fig] =
                 update_layout(add_trace(Figure, Line(series, m.name)),
                     [title |-> <<m.title, f.selected_date>>,
                      xaxis_title |-> "Time", yaxis_title |-> m.yaxis])]
    ELSE [g EXCEPT ![m.fig] = update_layout(Figure, [title |-> <<m.nodata>>])]

FetchSteps(f, r) ==
    FetchSeries(f, r, [metric |-> "steps", key |-> "activities-steps-intraday",
                       failed |-> "Steps request failed", fig |-> "fig_steps",
                       name |-> "Steps", title |-> "Steps on ",
                       yaxis |-> "Steps per Minute",
                       nodata |-> "No Steps Data Available"])

FetchWeight(f, r) ==
    FetchSeries(f, r, [metric |-> "weight", key |-> "weight-intraday",
                       failed |-> "Weight request failed", fig |-> "fig_weight",
                       name |-> "Weight", title |-> "weight on ",
                       yaxis |-> "Weight",
                       nodata |-> "No Weight Data Available"])

FetchSpo2(f, r) ==
    FetchSeries(f, r, [metric |-> "spo2", key |-> "spo2-intraday",
                       failed |-> "SPO2 request failed", fig |-> "fig_spo2",
                       name |-> "SPO2", title |-> "SPO2 on ",
                       yaxis |-> "spo2 per Minute",
                       nodata |-> "No SPO2 Data Available"])

(***************************************************************************)
(* Sleep.  The loop over the records of the response, then the figure with *)
(* one marker trace per distinct level, in the iteration order of a set of *)
(* strings.                                                                *)
(***************************************************************************)
\* mutant of IsMainSleep: the filter on the flag is left out
IsMainSleep_Any(record) == TRUE

\* record.get("isMainSleep")
IsMainSleep(record) == "isMainSleep" \in DOMAIN record /\ record["isMainSleep"] = TRUE

\* summary.get(stage, {}).get("minutes", 0)
StageMinutes(summary, stage) == Get(Get(summary, stage, EmptyDict), "minutes", 0)

\* the statement  sleep_stages[stage] = ...  of the inner loop, for every stage
SetStages(sleep_stages_, summary) ==
    [stage \in DOMAIN sleep_stages_ |-> StageMinutes(summary, stage)]

\* the points of a record up to (not including) the first that lacks key k1 or k2
RECURSIVE GoodPrefix(_, _, _)
GoodPrefix(points, k1, k2) ==
    IF points = <<>> \/ k1 \notin DOMAIN Head(points) \/ k2 \notin DOMAIN Head(points)
    THEN <<>>
    ELSE <<Head(points)>> \o GoodPrefix(Tail(points), k1, k2)

\* the body of  for record in sleep_data.get("sleep", [])  from record i on;
\* st holds sleep_stages, sleep_series and the exception raised, if any
RECURSIVE SleepLoop(_, _, _)
SleepLoop(records, i, st) ==
    IF i > Len(records) \/ st.e # NoExc THEN st
    ELSE LET record == records[i] IN
    IF ~IsMainSleep(record) THEN SleepLoop(records, i + 1, st)
    ELSE LET levels  == Get(record, "levels", EmptyDict)
             summary == Get(levels, "summary", EmptyDict)
             points  == Get(levels, "data", <<>>)
             good    == GoodPrefix(points, "dateTime", "level")
             pairs   == [j \in 1..Len(good) |-> <<good[j]["dateTime"], good[j]["level"]>>]
             st1     == [st EXCEPT !.sleep_stages = SetStages(@, summary),
                                   !.sleep_series = @ \o pairs]
         IN IF Len(good) < Len(points)
            THEN [st1 EXCEPT !.e =
                    IF "dateTime" \notin DOMAIN points[Len(good) + 1]
                    THEN "KeyError: 'dateTime'" ELSE "KeyError: 'level'"]
            ELSE SleepLoop(records, i + 1, st1)

stage_colors ==
    [wake |-> "red", light |-> "blue", deep |-> "purple", rem |-> "green",
     asleep |-> "blue", restless |-> "orange"]

\* The hash of a string under the process's seed, reduced to a slot of the
\* set's table.  Python randomizes str hashes per process; the model keeps a
\* family of injective slot assignments indexed by the seed.
StrCode(s) ==
    CASE s = "deep" -> 1 [] s = "light" -> 2 [] s = "rem" -> 3
      [] s = "wake" -> 4 [] OTHER -> 5

Slot(s, seed) == (StrCode(s) * (seed + 1)) % 7

\* iteration over set(...): the elements by increasing slot
RECURSIVE SetOrder(_, _)
SetOrder(S, seed) ==
    IF S = {} THEN <<>>
    ELSE LET m == CHOOSE x \in S : \A y \in S : Slot(x, seed) <= Slot(y, seed)
         IN <<m>> \o SetOrder(S \ {m}, seed)

StageTrace(sleep_series_, stage) ==
    LET hits  == SelectSeq(sleep_series_, LAMBDA p : p[2] = stage)
        times == [j \in 1..Len(hits) |-> hits[j][1]]
    IN [type |-> "scatter", x |-> times, y |-> [j \in 1..Len(times) |-> stage],
        mode |-> "markers",
        marker |-> [color |-> Get(stage_colors, stage, "gray")],
        name |-> stage]

SleepFigure(sleep_series_, date, seed) ==
    IF sleep_series_ # <<>>
    THEN LET stages == {sleep_series_[j][2] : j \in 1..Len(sleep_series_)}
             order  == SetOrder(stages, seed)
             traces == [j \in 1..Len(order) |-> StageTrace(sleep_series_, order[j])]
         IN update_layout([Figure EXCEPT !.data = traces],
                [title |-> <<"Sleep Stages on ", date>>,
                 xaxis_title |-> "Time", yaxis_title |-> "Stage",
                 yaxis |-> [type |-> "category"]])
    ELSE update_layout(Figure, [title |-> <<"No Sleep Data Available">>])

FetchSleep(f, r) ==
    LET g == requests_get(f, "sleep", r) IN
    IF r.raised THEN Raise(g, "ConnectionError")
    ELSE IF StatusFailed(r) THEN Raise(g, "Sleep data request failed")
    ELSE IF ~r.json_ok THEN Raise(g, "JSONDecodeError")
    ELSE LET sleep_data == r.body
             st == SleepLoop(Get(sleep_data, "sleep", <<>>), 1,
                       [sleep_stages |-> [deep |-> 0, light |-> 0, rem |-> 0, wake |-> 0],
                        sleep_series |-> <<>>, e |-> NoExc])
             h == [g EXCEPT !.sleep_stages = st.sleep_stages,
                            !.sleep_series = st.sleep_series]
         IN IF st.e # NoExc THEN Raise(h, st.e)
            ELSE [h EXCEPT !.fig_sleep =
                    SleepFigure(st.sleep_series, f.selected_date, f.seed)]

(***************************************************************************)
(* Activity.  fig_activity is created only in the branch of a non-empty    *)
(* summary; the else branch uses it without having assigned it.            *)
(***************************************************************************)
activity_labels == <<"Sedentary", "Light", "Moderate", "Vigorous">>

\* mutant of activity_minutes: a missing field is skipped, not charted as 0
activity_minutes_omitting(summary) ==
    LET fields == <<"sedentaryMinutes", "lightlyActiveMinutes",
                    "moderatelyActiveMinutes", "veryActiveMinutes">>
        present == SelectSeq(fields, LAMBDA k : k \in DOMAIN summary)
    IN [j \in 1..Len(present) |-> summary[present[j]]]

activity_minutes(summary) ==
    <<Get(summary, "sedentaryMinutes", 0),
      Get(summary, "lightlyActiveMinutes", 0),
      Get(summary, "moderatelyActiveMinutes", 0),
      Get(summary, "veryActiveMinutes", 0)>>

FetchActivity(f, r) ==
    LET g == requests_get(f, "activity", r) IN
    IF r.raised THEN Raise(g, "ConnectionError")
    ELSE IF StatusFailed(r) THEN Raise(g, "Activity request failed")
    ELSE IF ~r.json_ok THEN Raise(g, "JSONDecodeError")
    ELSE LET activity_data == r.body
             summary == Get(activity_data, "summary", EmptyDict)
         IN IF summary # EmptyDict
            THEN [g EXCEPT !.fig_activity =
                    update_layout(
                        add_trace(Figure, [type |-> "bar", x |-> activity_labels,
                                           y |-> activity_minutes(summary),
                                           marker_color |-> "green"]),
                        [title |-> <<"Activity Minutes on ", f.selected_date>>,
                         xaxis_title |-> "Activity Type", yaxis_title |-> "Minutes"])]
            ELSE IF g.fig_activity = Unbound
                 THEN Raise(g, "UnboundLocalError: fig_activity")
                 ELSE [g EXCEPT !.fig_activity =
                         update_layout(@, [title |-> <<"No Activity Data Available">>])]

(***************************************************************************)
(* The body of fetch_fitbit_data.                                          *)
(***************************************************************************)
\* the order of the six fetch blocks inside the try
FetchOrder == <<"heart", "steps", "sleep", "activity", "weight", "spo2">>

\* the k-th fetch block, its request answered by r
FetchBlock(k, f, r) ==
    CASE FetchOrder[k] = "heart"    -> FetchHeart(f, r)
      [] FetchOrder[k] = "steps"    -> FetchSteps(f, r)
      [] FetchOrder[k] = "sleep"    -> FetchSleep(f, r)
      [] FetchOrder[k] = "activity" -> FetchActivity(f, r)
      [] FetchOrder[k] = "weight"   -> FetchWeight(f, r)
      [] FetchOrder[k] = "spo2"     -> FetchSpo2(f, r)

\* if not token or not selected_date
MissingInput(tok, date) == ~Truthy(tok) \/ ~Truthy(date)

\* return go.Figure(), True   (the early return on missing input)
EarlyReturn == <<Figure, TRUE>>

\* mutant of ExceptReturn: the heart-rate figure, when it was built, is
\* returned with the error flag
ExceptReturn_Partial(f) ==
    <<IF f.fig_hr = Unbound THEN Figure ELSE f.fig_hr, TRUE>>

\* return go.Figure(), True   (the except clause)
ExceptReturn(f) == <<Figure, TRUE>>

\* return fig_hr, fig_steps, fig_weight, fig_spo2, fig_activity, fig_sleep, False
SuccessReturn(f) ==
    <<f.fig_hr, f.fig_steps, f.fig_weight, f.fig_spo2, f.fig_activity, f.fig_sleep, FALSE>>

\* mutant of Finished: an exception does not end the try block
Finished_KeepsGoing(f) == Len(f.requests) = Len(FetchOrder)

\* whether the call is over: an exception was raised or the last block is done
Finished(f) == f.e # NoExc \/ Len(f.requests) = Len(FetchOrder)

ReturnValue(f) ==
    IF MissingInput(f.token, f.selected_date) THEN EarlyReturn
    ELSE IF f.e # NoExc THEN ExceptReturn(f)
    ELSE SuccessReturn(f)

\* print("Error:", e) of the except clause
Printed(f) == IF f.e # NoExc THEN <<<<"Error:", f.e>>>> ELSE <<>>

(***************************************************************************)
(* The environment of the dashboard: the user's inputs and what the        *)
(* external API may answer to each request.                                *)
(***************************************************************************)
Tokens == {None, "", "tok"}
Dates == {None, "2025-05-10"}
\* two of the hash seeds an interpreter may draw at start-up
Seeds == {0, 1}
Metrics == {"heart", "steps", "sleep", "activity", "weight", "spo2"}

\* requests.get raised (connection refused, timeout, ...)
TransportError == [raised |-> TRUE, status_code |-> 0, json_ok |-> FALSE, body |-> EmptyDict]
\* a response with a JSON body
Http(status, body) == [raised |-> FALSE, status_code |-> status, json_ok |-> TRUE, body |-> body]
\* a response whose body is not JSON
NotJson(status) == [raised |-> FALSE, status_code |-> status, json_ok |-> FALSE, body |-> EmptyDict]

Failures ==
    {TransportError, NotJson(200),
     Http(401, [errors |-> <<[errorType |-> "invalid_token"]>>])}

dp1 == [time |-> "00:00:00", value |-> 61]
dp2 == [time |-> "00:01:00", value |-> 64]

\* bodies of an intraday endpoint: no key, a key without dataset, an empty
\* dataset, a dataset of two points, a dataset with a point lacking "value"
IntradayBodies(key) ==
    {EmptyDict,
     (key :> EmptyDict),
     (key :> [dataset |-> <<>>]),
     (key :> [dataset |-> <<dp1, dp2>>]),
     (key :> [dataset |-> <<dp1, [time |-> "00:01:00"]>>])}

MainNight ==
    [isMainSleep |-> TRUE,
     levels |-> [summary |-> [deep |-> [minutes |-> 50], light |-> [minutes |-> 200],
                              rem |-> [minutes |-> 60], wake |-> [minutes |-> 20]],
                 data |-> <<[dateTime |-> "T23:10", level |-> "light"],
                            [dateTime |-> "T23:40", level |-> "deep"]>>]]
MainSplit ==
    [isMainSleep |-> TRUE,
     levels |-> [summary |-> [deep |-> [minutes |-> 30], wake |-> [minutes |-> 5]],
                 data |-> <<[dateTime |-> "T04:00", level |-> "deep"],
                            [dateTime |-> "T05:00", level |-> "unknown"]>>]]
Nap ==
    [isMainSleep |-> FALSE,
     levels |-> [summary |-> [light |-> [minutes |-> 40], rem |-> [minutes |-> 9]],
                 data |-> <<[dateTime |-> "T14:00", level |-> "rem"]>>]]
Unflagged ==
    [levels |-> [summary |-> [deep |-> [minutes |-> 7]],
                 data |-> <<[dateTime |-> "T16:00", level |-> "wake"]>>]]

SleepRecords == {MainNight, MainSplit, Nap, Unflagged}

SleepBodies ==
    {EmptyDict} \cup {[sleep |-> recs] : recs \in BoundedSeq(SleepRecords, MaxRecords)}

ActivityFields ==
    {"sedentaryMinutes", "lightlyActiveMinutes", "moderatelyActiveMinutes",
     "veryActiveMinutes"}

FullSummary ==
    [sedentaryMinutes |-> 600, lightlyActiveMinutes |-> 180,
     moderatelyActiveMinutes |-> 30, veryActiveMinutes |-> 15, steps |-> 9000]

Restrict(d, keys) == [k \in DOMAIN d \cap keys |-> d[k]]

\* summaries: all fields, the first or the last two of the four missing, all
\* four missing (another key is there), no key at all
ActivitySummaries ==
    {FullSummary,
     Restrict(FullSummary, DOMAIN FullSummary \ {"sedentaryMinutes"}),
     Restrict(FullSummary, DOMAIN FullSummary \ {"moderatelyActiveMinutes", "veryActiveMinutes"}),
     Restrict(FullSummary, {"steps"}),
     EmptyDict}

ActivityBodies == {EmptyDict} \cup {[summary |-> sm] : sm \in ActivitySummaries}

Bodies(metric) ==
    CASE metric = "heart"    -> IntradayBodies("activities-heart-intraday")
      [] metric = "steps"    -> IntradayBodies("activities-steps-intraday")
      [] metric = "weight"   -> IntradayBodies("weight-intraday")
      [] metric = "spo2"     -> IntradayBodies("spo2-intraday")
      [] metric = "sleep"    -> SleepBodies
      [] metric = "activity" -> ActivityBodies

\* what the API may answer to the request for a metric
ApiResponses == [m \in Metrics |-> Failures \cup {Http(200, b) : b \in Bodies(m)}]

\* an API that answers each request as it answered it in the last call
SameResponses ==
    [m \in Metrics |->
        IF \E i \in 1..Len(requests) : requests[i].metric = m
        THEN {responses[i] : i \in {j \in 1..Len(requests) : requests[j].metric = m}}
        ELSE ApiResponses[m]]

(***************************************************************************)
(* The dashboard as a state machine.                                       *)
(***************************************************************************)
\* the call returns: its frame becomes the observable record of the call
Returns(f) ==
    /\ token' = f.token
    /\ selected_date' = f.selected_date
    /\ requests' = f.requests
    /\ responses' = f.responses
    /\ fig_hr' = f.fig_hr
    /\ fig_steps' = f.fig_steps
    /\ fig_sleep' = f.fig_sleep
    /\ fig_activity' = f.fig_activity
    /\ fig_weight' = f.fig_weight
    /\ fig_spo2' = f.fig_spo2
    /\ sleep_stages' = f.sleep_stages
    /\ sleep_series' = f.sleep_series
    /\ e' = f.e
    /\ stdout' = Printed(f)
    /\ prev_result' = result
    /\ result' = ReturnValue(f)

\* The try block from block k on, in frame f, against an API that answers
\* the request for metric m with one of api[m]: each block issues its
\* request, and the call returns when a block raises or the last is done.
Run6(f, api) ==
    \E r \in api[FetchOrder[6]] :
        \E g \in {FetchBlock(6, f, r)} : Returns(g)
Run5(f, api) ==
    \E r \in api[FetchOrder[5]] :
        \E g \in {FetchBlock(5, f, r)} :
            IF Finished(g) THEN Returns(g) ELSE Run6(g, api)
Run4(f, api) ==
    \E r \in api[FetchOrder[4]] :
        \E g \in {FetchBlock(4, f, r)} :
            IF Finished(g) THEN Returns(g) ELSE Run5(g, api)
Run3(f, api) ==
    \E r \in api[FetchOrder[3]] :
        \E g \in {FetchBlock(3, f, r)} :
            IF Finished(g) THEN Returns(g) ELSE Run4(g, api)
Run2(f, api) ==
    \E r \in api[FetchOrder[2]] :
        \E g \in {FetchBlock(2, f, r)} :
            IF Finished(g) THEN Returns(g) ELSE Run3(g, api)
Run1(f, api) ==
    \E r \in api[FetchOrder[1]] :
        \E g \in {FetchBlock(1, f, r)} :
            IF Finished(g) THEN Returns(g) ELSE Run2(g, api)

\* a call of fetch_fitbit_data, from its first line to its return, in a
\* process whose hash seed is seed
fetch_fitbit_data(tok, date, seed, api) ==
    /\ hashSeed' = seed
    /\ IF MissingInput(tok, date)
       THEN Returns(Frame(tok, date, seed))
       ELSE Run1(Frame(tok, date, seed), api)

\* The first click on the submit button: any inputs, any answers of the
\* API.  (prevent_initial_call: the callback does not run before a click;
\* its parameter n_clicks is not read.)
Submit ==
    /\ result = NoResult
    /\ \E tok \in Tokens, date \in Dates :
         fetch_fitbit_data(tok, date, hashSeed, ApiResponses)
    /\ UNCHANGED logVars

\* a later click with the same inputs, the API answering as before, served
\* by the same server process
Resubmit ==
    /\ result # NoResult
    /\ fetch_fitbit_data(token, selected_date, hashSeed, SameResponses)
    /\ UNCHANGED logVars

\* the same, served by another process (the server was restarted, or
\* another worker takes the call): its interpreter drew its own hash seed
ResubmitOtherProcess ==
    /\ result # NoResult
    /\ \E s \in Seeds \ {hashSeed} :
         fetch_fitbit_data(token, selected_date, s, SameResponses)
    /\ UNCHANGED logVars

DashInit ==
    /\ hashSeed \in Seeds
    /\ token = None
    /\ selected_date = None
    /\ requests = <<>>
    /\ responses = <<>>
    /\ fig_hr = Unbound
    /\ fig_steps = Unbound
    /\ fig_sleep = Unbound
    /\ fig_activity = Unbound
    /\ fig_weight = Unbound
    /\ fig_spo2 = Unbound
    /\ sleep_stages = Unbound
    /\ sleep_series = Unbound
    /\ e = NoExc
    /\ stdout = <<>>
    /\ result = NoResult
    /\ prev_result = NoResult

(***************************************************************************)
(* The logging service (src/main.py).  A request body is JSON text; the    *)
(* parsed value of an object is the list of its (key, value) pairs in      *)
(* order, as a Python dict keeps them.                                     *)
(***************************************************************************)
\* request bodies: three JSON texts (two of them of the same value) and one
\* that is not JSON
RequestBodies == {"{\"a\": 1}", "{\"a\":1}", "{\"b\": 2, \"a\": 1}", "{\"a\": "}

\* whether json.loads(text) succeeds
IsJson(text) == text \in {"{\"a\": 1}", "{\"a\":1}", "{\"b\": 2, \"a\": 1}"}

\* json.loads(text), for a JSON text
json_loads(text) ==
    CASE text = "{\"a\": 1}" -> <<<<"a", 1>>>>
      [] text = "{\"a\":1}" -> <<<<"a", 1>>>>
      [] text = "{\"b\": 2, \"a\": 1}" -> <<<<"b", 2>>, <<"a", 1>>>>

\* str(data), as the f-string formats a dict
py_str(data) ==
    CASE data = <<<<"a", 1>>>> -> "{'a': 1}"
      [] data = <<<<"b", 2>>, <<"a", 1>>>> -> "{'b': 2, 'a': 1}"

\* mutant of basicConfig: the file is opened with filemode="w"
basicConfig_truncate(file) == <<>>

\* logging.basicConfig(filename="requests.log", ...): the FileHandler opens
\* the file for appending, so the lines of earlier processes are kept
basicConfig(file) == file

\* the record the format "%(asctime)s - %(message)s" writes as one line
LogLine(now, message) == [asctime |-> now, message |-> message]

\* logging.info(f"Received JSON: {data}")
logging_info(file, now, data) ==
    Append(file, LogLine(now, <<"Received JSON: ", py_str(data)>>))

NoData == <<>>
NoReply == [status |-> "<no reply>", received |-> NoData]

\* a client sends POST /log: log_data starts and awaits the body
Receive ==
    /\ Len(calls) < MaxLogCalls
    /\ \E text \in RequestBodies :
         calls' = Append(calls, [body |-> text, pc |-> "await", data |-> NoData,
                                 reply |-> NoReply, logged_at |-> 0])
    /\ UNCHANGED <<clock, logfile>>
    /\ UNCHANGED dashVars

\* request.json() completes for call i: the handler runs to its return
\* without another await.  A body that is not JSON raises in request.json()
\* and the framework answers with a server error.
log_data ==
    /\ \E i \in 1..Len(calls) :
         /\ calls[i].pc = "await"
         /\ IF IsJson(calls[i].body)
            THEN LET data == json_loads(calls[i].body) IN
                 /\ logfile' = logging_info(logfile, clock, data)
                 /\ calls' = [calls EXCEPT ![i] =
                        [@ EXCEPT !.pc = "returned", !.data = data,
                                  !.reply = [status |-> "logged", received |-> data],
                                  !.logged_at = Len(logfile) + 1]]
            ELSE /\ logfile' = logfile
                 /\ calls' = [calls EXCEPT ![i] =
                        [@ EXCEPT !.pc = "failed",
                                  !.reply = [status |-> "Internal Server Error",
                                             received |-> NoData]]]
    /\ UNCHANGED clock
    /\ UNCHANGED dashVars

\* time passes
Tick ==
    /\ clock < MaxClock
    /\ clock' = clock + 1
    /\ UNCHANGED <<calls, logfile>>
    /\ UNCHANGED dashVars

\* the logging process is restarted: the calls in flight are lost, the
\* module is imported again and basicConfig reopens requests.log
LogRestart ==
    /\ \E i \in 1..Len(calls) : calls[i].pc = "await"
    /\ calls' = [i \in 1..Len(calls) |->
                    IF calls[i].pc = "await" THEN [calls[i] EXCEPT !.pc = "lost"]
                    ELSE calls[i]]
    /\ logfile' = basicConfig(logfile)
    /\ UNCHANGED clock
    /\ UNCHANGED dashVars

LogInit ==
    /\ clock = 0
    /\ calls = <<>>
    /\ logfile = <<>>

Init == DashInit /\ LogInit

Next == Submit \/ Resubmit \/ ResubmitOtherProcess

Spec == Init /\ [][Next]_vars

LogNext == Receive \/ log_data \/ Tick \/ LogRestart

LogSpec == Init /\ [][LogNext]_vars

(***************************************************************************)
(* Vocabulary of the properties: what can be read off the record of the    *)
(* last call.                                                              *)
(***************************************************************************)
Called == result # NoResult
ValidInput == token # None /\ token # "" /\ selected_date # None /\ selected_date # ""

Requested(m) == \E i \in 1..Len(requests) : requests[i].metric = m
IndexOf(m) == CHOOSE i \in 1..Len(requests) : requests[i].metric = m
ResponseTo(m) == responses[IndexOf(m)]

\* the request was answered with status 200
Success(r) == ~r.raised /\ r.status_code = 200
\* ... and the body was JSON
SuccessJson(r) == Success(r) /\ r.json_ok

\* the exception caught, if any, was raised by the block of metric m
RaisedIn(m) == e # NoExc /\ requests[Len(requests)].metric = m

\* the local variable holding the figure of metric m
FigOf(m) ==
    CASE m = "heart" -> fig_hr [] m = "steps" -> fig_steps [] m = "sleep" -> fig_sleep
      [] m = "activity" -> fig_activity [] m = "weight" -> fig_weight
      [] m = "spo2" -> fig_spo2

IntradayKey(m) ==
    CASE m = "heart" -> "activities-heart-intraday"
      [] m = "steps" -> "activities-steps-intraday"
      [] m = "weight" -> "weight-intraday"
      [] m = "spo2" -> "spo2-intraday"

\* the series of metric m in body is empty, or its key path is absent
NoSeries(m, body) ==
    CASE m = "sleep" -> "sleep" \notin DOMAIN body \/ body["sleep"] = <<>>
      [] m = "activity" -> "summary" \notin DOMAIN body \/ body["summary"] = EmptyDict
      [] OTHER -> \/ IntradayKey(m) \notin DOMAIN body
                  \/ "dataset" \notin DOMAIN body[IntradayKey(m)]
                  \/ body[IntradayKey(m)]["dataset"] = <<>>

NoDataTitle(m) ==
    CASE m = "heart" -> <<"No Heart Rate Data Available">>
      [] m = "steps" -> <<"No Steps Data Available">>
      [] m = "sleep" -> <<"No Sleep Data Available">>
      [] m = "activity" -> <<"No Activity Data Available">>
      [] m = "weight" -> <<"No Weight Data Available">>
      [] m = "spo2" -> <<"No SPO2 Data Available">>

\* a figure with a "no data" title and zero traces
IsNoDataFigure(fig, m) ==
    /\ fig # Unbound
    /\ fig.data = <<>>
    /\ "title" \in DOMAIN fig.layout
    /\ fig.layout["title"] = NoDataTitle(m)

\* six blank chart specifications and the error flag true
SixBlankAndError == <<Figure, Figure, Figure, Figure, Figure, Figure, TRUE>>

(***************************************************************************)
(* C1.  All-or-nothing: when one of the requests returns a non-success     *)
(* status, the call returns six blank chart specifications and the error   *)
(* flag true.                                                              *)
(***************************************************************************)
C1_AllOrNothing ==
    (/\ Called
     /\ ValidInput
     /\ \E i \in 1..Len(responses) :
           ~responses[i].raised /\ responses[i].status_code # 200)
    => result = SixBlankAndError

(***************************************************************************)
(* C2.  With an empty or absent token, or no selected date, the call       *)
(* issues no request and returns six empty chart specifications and the    *)
(* error flag true.                                                        *)
(***************************************************************************)
C2_MissingInputShortCircuits ==
    (Called /\ ~ValidInput)
    => (requests = <<>> /\ result = SixBlankAndError)

(***************************************************************************)
(* C3.  For each metric: when the requests were answered with success and  *)
(* the metric's series is empty or its key path absent, the metric's block *)
(* raises no exception and its figure has a "no data" title and no trace.  *)
(***************************************************************************)
C3_NoDataIsNotAnError ==
    \A m \in Metrics :
        (/\ Called
         /\ Requested(m)
         /\ \A i \in 1..Len(responses) : SuccessJson(responses[i])
         /\ NoSeries(m, ResponseTo(m).body))
        => (~RaisedIn(m) /\ IsNoDataFigure(FigOf(m), m))

(***************************************************************************)
(* Sleep: what the response says, read independently of the loop.          *)
(***************************************************************************)
\* the sleep block ran to its end on a JSON response
SleepProcessed ==
    /\ Called
    /\ Requested("sleep")
    /\ SuccessJson(ResponseTo("sleep"))
    /\ ~RaisedIn("sleep")

SleepRecordsReturned ==
    LET body == ResponseTo("sleep").body
    IN IF "sleep" \in DOMAIN body THEN body["sleep"] ELSE <<>>

\* the positions of the records flagged isMainSleep: true
MainPositions ==
    {i \in 1..Len(SleepRecordsReturned) :
        /\ "isMainSleep" \in DOMAIN SleepRecordsReturned[i]
        /\ SleepRecordsReturned[i]["isMainSleep"] = TRUE}

\* the (dateTime, level) pairs of a record
PairsOf(record) ==
    IF "levels" \in DOMAIN record /\ "data" \in DOMAIN record["levels"]
    THEN {<<record["levels"]["data"][j]["dateTime"], record["levels"]["data"][j]["level"]>> :
             j \in 1..Len(record["levels"]["data"])}
    ELSE {}

\* the minutes a record's summary gives for a stage, 0 when it gives none
MinutesOf(record, stage) ==
    IF /\ "levels" \in DOMAIN record
       /\ "summary" \in DOMAIN record["levels"]
       /\ stage \in DOMAIN record["levels"]["summary"]
       /\ "minutes" \in DOMAIN record["levels"]["summary"][stage]
    THEN record["levels"]["summary"][stage]["minutes"]
    ELSE 0

MainPairs == UNION {PairsOf(SleepRecordsReturned[i]) : i \in MainPositions}

\* the (time, stage) points the sleep figure plots
PlottedPairs ==
    UNION {{<<fig_sleep.data[k].x[j], fig_sleep.data[k].name>> :
               j \in 1..Len(fig_sleep.data[k].x)} : k \in 1..Len(fig_sleep.data)}

Stages == {"deep", "light", "rem", "wake"}

(***************************************************************************)
(* C4.  Sleep reduction: the per-stage minutes and the (timestamp, stage)  *)
(* points of the sleep chart come only from the records flagged            *)
(* isMainSleep; a record without the flag, or with it false, contributes   *)
(* no minutes and no points.                                               *)
(***************************************************************************)
C4_OnlyMainSleepCounts ==
    SleepProcessed =>
        /\ {sleep_series[j] : j \in 1..Len(sleep_series)} = MainPairs
        /\ PlottedPairs = MainPairs
        /\ \A stage \in Stages :
              \/ \E i \in MainPositions :
                    sleep_stages[stage] = MinutesOf(SleepRecordsReturned[i], stage)
              \/ MainPositions = {} /\ sleep_stages[stage] = 0

\* two records, only the second flagged, the first with points and minutes
C4_Witness ==
    /\ SleepProcessed
    /\ Len(SleepRecordsReturned) = 2
    /\ MainPositions = {2}
    /\ PairsOf(SleepRecordsReturned[1]) # {}
    /\ \E stage \in Stages : MinutesOf(SleepRecordsReturned[1], stage) > 0
    /\ fig_sleep.data # <<>>

(***************************************************************************)
(* Activity: what the response says.                                       *)
(***************************************************************************)
ActivityAnswered ==
    /\ Called
    /\ Requested("activity")
    /\ SuccessJson(ResponseTo("activity"))
    /\ "summary" \in DOMAIN ResponseTo("activity").body

SummaryReturned == ResponseTo("activity").body["summary"]

FourFields ==
    <<"sedentaryMinutes", "lightlyActiveMinutes", "moderatelyActiveMinutes",
      "veryActiveMinutes">>

LacksAField == \E k \in 1..4 : FourFields[k] \notin DOMAIN SummaryReturned

\* four categories in the fixed order, zero charted for each missing field,
\* and no exception from the activity block
FourBarsWithZeros ==
    /\ ~RaisedIn("activity")
    /\ fig_activity # Unbound
    /\ Len(fig_activity.data) = 1
    /\ fig_activity.data[1].x = <<"Sedentary", "Light", "Moderate", "Vigorous">>
    /\ Len(fig_activity.data[1].y) = 4
    /\ \A k \in 1..4 :
          fig_activity.data[1].y[k] =
              IF FourFields[k] \in DOMAIN SummaryReturned
              THEN SummaryReturned[FourFields[k]] ELSE 0

C6_Idempotent == (Called /\ prev_result # NoResult) => result = prev_result

\* the call failed: an input was missing, or an exception was caught
Failed == ~ValidInput \/ e # NoExc

\* the figures the call had built when it returned
BuiltFigures == {FigOf(m) : m \in Metrics} \ {Unbound}

(***************************************************************************)
(* C8.  Uniform failure outcome: whatever the cause of the failure         *)
(* (missing input, a request that raised, a non-success status, a body     *)
(* that is not JSON, a missing key), the call returns one and the same     *)
(* value, and none of the figures built before the failure is in it.       *)
(***************************************************************************)
C8_UniformFailure ==
    (Called /\ Failed) =>
        /\ result = <<[data |-> <<>>, layout |-> EmptyDict], TRUE>>
        /\ \A k \in 1..(Len(result) - 1) : result[k] \notin BuiltFigures

\* a failure by a missing key, after two figures had been built
C8_Witness ==
    /\ Called
    /\ e = "KeyError: 'value'"
    /\ fig_hr # Unbound
    /\ fig_steps # Unbound
    /\ Len(requests) = 5

\* the sum, over the records at the given positions, of a stage's minutes
RECURSIVE TotalMinutes(_, _)
TotalMinutes(positions, stage) ==
    IF positions = {} THEN 0
    ELSE LET i == CHOOSE x \in positions : TRUE
         IN MinutesOf(SleepRecordsReturned[i], stage)
            + TotalMinutes(positions \ {i}, stage)

(***************************************************************************)
(* C9.  With more than one record flagged isMainSleep, the per-stage       *)
(* minutes held after the loop are the totals over all those records, and  *)
(* the point list contains the points of every such record.                *)
(***************************************************************************)
C9_StageMinutesAreTotals ==
    (SleepProcessed /\ Cardinality(MainPositions) > 1) =>
        /\ \A stage \in Stages : sleep_stages[stage] = TotalMinutes(MainPositions, stage)
        /\ MainPairs \subseteq {sleep_series[j] : j \in 1..Len(sleep_series)}

Answered(c) == c.pc \in {"returned", "failed"}

\* every answered call with a JSON body got the acknowledgement and has its
\* own line in the file; the file has no other line
C7_EveryCallLogged ==
    /\ \A i \in 1..Len(calls) :
          (Answered(calls[i]) /\ IsJson(calls[i].body)) =>
              /\ calls[i].pc = "returned"
              /\ calls[i].reply =
                    [status |-> "logged", received |-> json_loads(calls[i].body)]
              /\ calls[i].logged_at \in 1..Len(logfile)
              /\ logfile[calls[i].logged_at].asctime \in 0..clock
              /\ logfile[calls[i].logged_at].message =
                    <<"Received JSON: ", py_str(json_loads(calls[i].body))>>
    /\ \A i, j \in 1..Len(calls) :
          (calls[i].pc = "returned" /\ calls[j].pc = "returned" /\ i # j)
              => calls[i].logged_at # calls[j].logged_at
    /\ Len(logfile) = Cardinality({i \in 1..Len(calls) : calls[i].pc = "returned"})

\* a step keeps the lines written and adds one per call that returns in it
C7_AppendOnlyStep ==
    /\ Len(logfile') >= Len(logfile)
    /\ SubSeq(logfile', 1, Len(logfile)) = logfile
    /\ Len(logfile') - Len(logfile) =
          Cardinality({i \in 1..Len(calls') : calls'[i].pc = "returned"})
          - Cardinality({i \in 1..Len(calls) : calls[i].pc = "returned"})

=============================================================================
